---- MODULE Spec2Model ----
(***************************************************************************)
(* Model of apps/dashboard/pages/api/tools/youtube-summary/index.ts:       *)
(* the GET handler getLatestVideos, the POST handler createYoutubeSummary  *)
(* (one action per awaited step) and the pure transcript transforms        *)
(* groupBySentences and the text assembly.                                 *)
(***************************************************************************)
EXTENDS Integers, Sequences, FiniteSets, TLC

VARIABLES
  store,               \* rows of the lLMTaskOutput table
  nextId,              \* source of cuid() values
  clock,               \* wall clock, in seconds
  hits,                \* rate limiter: caller -> times of the calls it let through
  req,                 \* one record per POST request: position and locals
  latest,              \* the last response of getLatestVideos
  lines,               \* transform pipeline: the transcript handed in
  tpc,                 \* transform pipeline: position
  groupedTranscripts,  \* transform pipeline: groupBySentences' groups
  segments,            \* transform pipeline: groupBySentences' return value
  formatted,           \* transform pipeline: the strings '[..s] ..' before the join
  assembled            \* transform pipeline: the variable text

handlerVars == <<store, nextId, clock, hits, req, latest>>
textVars == <<lines, tpc, groupedTranscripts, segments, formatted, assembled>>
vars == <<store, nextId, clock, hits, req, latest,
          lines, tpc, groupedTranscripts, segments, formatted, assembled>>

(***************************************************************************)
(* Bounds of the model.                                                    *)
(***************************************************************************)
MaxReqs == 2
MaxSeqReqs == 3
MaxClock == 60
MaxLines == 3

TickStep == 30

(***************************************************************************)
(* Text: a string is a sequence of one-character strings.                  *)
(***************************************************************************)
Digit == <<"0", "1", "2", "3", "4", "5", "6", "7", "8", "9">>

RECURSIVE NumToStr(_)
NumToStr(n) ==
  IF n < 10 THEN <<Digit[n + 1]>>
  ELSE NumToStr(n \div 10) \o <<Digit[(n % 10) + 1]>>

IsSpace(c) == c = " "

RECURSIVE trimStart(_)
trimStart(s) ==
  IF s # <<>> /\ IsSpace(Head(s)) THEN trimStart(Tail(s)) ELSE s

RECURSIVE trimEnd(_)
trimEnd(s) ==
  IF s # <<>> /\ IsSpace(s[Len(s)]) THEN trimEnd(SubSeq(s, 1, Len(s) - 1)) ELSE s

trim(s) == trimEnd(trimStart(s))

startsWithDash(s) == s # <<>> /\ Head(s) = "-"

\* text.replace(/^- /, '')
replaceDashSpace(s) ==
  IF Len(s) >= 2 /\ s[1] = "-" /\ s[2] = " " THEN SubSeq(s, 3, Len(s)) ELSE s

\* Math.ceil(offset / 1000)
ceilSeconds(offset) == (offset + 999) \div 1000

RECURSIVE join(_, _)
join(ss, sep) ==
  IF ss = <<>> THEN <<>>
  ELSE IF Len(ss) = 1 THEN ss[1]
  ELSE ss[1] \o sep \o join(Tail(ss), sep)

(***************************************************************************)
(* groupBySentences and the assembly of the variable text.                 *)
(***************************************************************************)
\* Variant of IsMarked that tests the raw text, without trim().
IsMarkedUntrimmed(line) == startsWithDash(line.text)

IsMarked(line) == startsWithDash(trim(line.text))

\* The forEach: the state is <<groupedTranscripts, currentGroup>>.
RECURSIVE forEachLine(_, _, _)
forEachLine(t, grouped, currentGroup) ==
  IF t = <<>> THEN <<grouped, currentGroup>>
  ELSE IF IsMarked(Head(t)) /\ Len(currentGroup) > 0
       THEN forEachLine(Tail(t), Append(grouped, currentGroup), <<Head(t)>>)
       ELSE forEachLine(Tail(t), grouped, Append(currentGroup, Head(t)))

Groups(t) ==
  LET end == forEachLine(t, <<>>, <<>>)
  IN IF Len(end[2]) > 0 THEN Append(end[1], end[2]) ELSE end[1]

\* each.reduce(...): the first item, then text extended by " " and the next text.
RECURSIVE reduceGroup(_, _)
reduceGroup(acc, rest) ==
  IF rest = <<>> THEN acc
  ELSE reduceGroup([acc EXCEPT !.text = acc.text \o <<" ">> \o Head(rest).text],
                   Tail(rest))

MergeGroup(each) == reduceGroup(Head(each), Tail(each))

MergeAll(groups) == [i \in 1..Len(groups) |-> MergeGroup(groups[i])]

groupBySentences(t) == MergeAll(Groups(t))

\* The two maps: {text, offset: '<n>s'}, then '[<offset>] <text>'.
RenderSegment(each) ==
  <<"[">> \o NumToStr(ceilSeconds(each.offset)) \o <<"s", "]", " ">>
    \o replaceDashSpace(each.text)

FormatAll(segs) == [i \in 1..Len(segs) |-> RenderSegment(segs[i])]

AssembleText(segs) == join(FormatAll(segs), <<"\n">>)

(***************************************************************************)
(* The transform pipeline on its own: any transcript of up to MaxLines     *)
(* lines, grouped, merged and assembled step by step.                      *)
(***************************************************************************)
Prefixes == {<<>>, <<"-">>, <<"-", " ">>, <<" ", "-", " ">>}
Bodies == {<<>>, <<"a">>}
Texts == {p \o b : p \in Prefixes, b \in Bodies}
Offsets == {0, 1200}
Lines == [text : Texts, offset : Offsets]

RECURSIVE SeqsUpTo(_, _)
SeqsUpTo(S, n) ==
  IF n = 0 THEN {<<>>}
  ELSE LET shorter == SeqsUpTo(S, n - 1)
       IN shorter \cup {Append(s, x) : s \in {q \in shorter : Len(q) = n - 1}, x \in S}

TextIdle ==
  /\ lines = <<>>
  /\ tpc = "off"
  /\ groupedTranscripts = <<>>
  /\ segments = <<>>
  /\ formatted = <<>>
  /\ assembled = <<>>

GroupStep ==
  /\ tpc = "input"
  /\ groupedTranscripts' = Groups(lines)
  /\ tpc' = "grouped"
  /\ UNCHANGED <<lines, segments, formatted, assembled>>
  /\ UNCHANGED handlerVars

MergeStep ==
  /\ tpc = "grouped"
  /\ segments' = MergeAll(groupedTranscripts)
  /\ tpc' = "merged"
  /\ UNCHANGED <<lines, groupedTranscripts, formatted, assembled>>
  /\ UNCHANGED handlerVars

AssembleStep ==
  /\ tpc = "merged"
  /\ formatted' = FormatAll(segments)
  /\ assembled' = AssembleText(segments)
  /\ tpc' = "assembled"
  /\ UNCHANGED <<lines, groupedTranscripts, segments>>
  /\ UNCHANGED handlerVars

(***************************************************************************)
(* The store (prisma.lLMTaskOutput) and the services the handler calls.    *)
(***************************************************************************)
Null == [type |-> "null"]
NoId == "undefined"

YoutubeSummary == "youtube_summary"
OtherTask == "other_task"

\* YoutubeApi.extractVideoId: the identifier a URL carries, if any.
extractVideoId(url) ==
  CASE url = "https://youtu.be/v1" -> "v1"
    [] url = "https://youtu.be/v2" -> "v2"
    [] url = "https://youtu.be/v3" -> "v3"
    [] url = "https://youtu.be/v4" -> "v4"
    [] OTHER -> NoId

Callers == {"admin", "user"}

\* The requests sent: <<body url, query refresh = 'true', caller>>.
Inputs ==
  { <<"https://youtu.be/v1", FALSE, "user">>,
    <<"https://youtu.be/v1", TRUE, "user">>,
    <<"https://youtu.be/v1", TRUE, "admin">>,
    <<"https://youtu.be/v2", FALSE, "user">>,
    <<"https://youtu.be/v2", TRUE, "admin">>,
    <<"https://example.com/", FALSE, "user">> }

\* The requests sent one after the other: three videos without a summary.
SeqInputs ==
  { <<"https://youtu.be/v1", FALSE, "user">>,
    <<"https://youtu.be/v2", FALSE, "user">>,
    <<"https://youtu.be/v3", FALSE, "user">>,
    <<"https://youtu.be/v4", FALSE, "user">>,
    <<"https://youtu.be/v2", TRUE, "admin">> }
Roles(caller) == IF caller = "admin" THEN {"SUPERADMIN"} ELSE {"USER"}

\* Youtube.getVideoSnippetById for an identifier that exists: the provider
\* answers with the snippet of the video.
SnippetOf(videoId) == [title |-> videoId]

Row(id, externalId, type, output, usage, createdAt) ==
  [id |-> id, externalId |-> externalId, type |-> type, output |-> output,
   usage |-> usage, createdAt |-> createdAt]

\* findUnique({where: {unique_external_id: {type, externalId}}})
findUnique(rows, type, externalId) ==
  LET hit == {row \in rows : row.type = type /\ row.externalId = externalId}
  IN IF hit = {} THEN Null ELSE CHOOSE row \in hit : TRUE

\* The unique index unique_external_id refuses a second row for a key.
KeyTaken(rows, payload) ==
  \E row \in rows : row.type = payload.type /\ row.externalId = payload.externalId

\* Variant of Upsert whose where clause is the key (type, externalId), not the id.
UpsertByKey(rows, id, payload, now) ==
  LET old == {row \in rows : row.type = payload.type /\ row.externalId = payload.externalId}
  IN IF old # {}
     THEN LET prev == CHOOSE row \in old : TRUE
              row == Row(prev.id, payload.externalId, payload.type,
                         payload.output, payload.usage, prev.createdAt)
          IN [ok |-> TRUE, rows |-> (rows \ old) \cup {row}, row |-> row]
     ELSE LET row == Row(payload.id, payload.externalId, payload.type,
                         payload.output, payload.usage, now)
          IN [ok |-> TRUE, rows |-> rows \cup {row}, row |-> row]

\* Variant of Upsert whose create is not held back by the unique index.
UpsertNoIndex(rows, id, payload, now) ==
  LET old == {row \in rows : row.id = id}
      prev == CHOOSE row \in old : TRUE
      row == Row(payload.id, payload.externalId, payload.type, payload.output,
                 payload.usage, IF old # {} THEN prev.createdAt ELSE now)
  IN [ok |-> TRUE, rows |-> (rows \ old) \cup {row}, row |-> row]

\* upsert({where: {id}, create: payload, update: payload})
Upsert(rows, id, payload, now) ==
  LET old == {row \in rows : row.id = id}
  IN IF old # {}
     THEN LET prev == CHOOSE row \in old : TRUE
              row == Row(payload.id, payload.externalId, payload.type,
                         payload.output, payload.usage, prev.createdAt)
          IN [ok |-> TRUE, rows |-> (rows \ old) \cup {row}, row |-> row]
     ELSE IF KeyTaken(rows, payload)
          THEN [ok |-> FALSE, rows |-> rows, row |-> Null]
          ELSE LET row == Row(payload.id, payload.externalId, payload.type,
                              payload.output, payload.usage, now)
               IN [ok |-> TRUE, rows |-> rows \cup {row}, row |-> row]

\* rateLimit({duration, limit}): the calls of a caller still inside the window.
RateDuration == 60
RateLimit == 2

Recent(times, now) == SelectSeq(times, LAMBDA t : t > now - RateDuration)

Allowed(times, now) == Len(Recent(times, now)) < RateLimit

\* YoutubeApi.transcribeVideo: what the transcript provider may answer.
SampleTranscript ==
  << [text |-> <<"-", " ", "I", "n", "t", "r", "o">>, offset |-> 0],
     [text |-> <<"m", "o", "r", "e">>, offset |-> 1200],
     [text |-> <<"-", " ", "N", "e", "x", "t">>, offset |-> 5000] >>
Transcripts == {SampleTranscript}

\* splitTextByToken({text, chunkSize}): a text within the budget is one chunk.
MaxTokens == 128000
ChunkSize == (MaxTokens * 7) \div 10
splitTextByToken(text, chunkSize) ==
  IF Len(text) <= chunkSize THEN <<text>>
  ELSE <<SubSeq(text, 1, chunkSize), SubSeq(text, chunkSize + 1, Len(text))>>

\* model.call: the tool-call arguments and the usage of a completion.
Completions ==
  { [arguments |-> "summary A", usage |-> 10],
    [arguments |-> "summary B", usage |-> 20],
    [arguments |-> "not json", usage |-> 5] }

\* zodParseJSON(Schema): the arguments that parse against the schema.
Parses(arguments) == arguments \in {"summary A", "summary B"}
zodParseJSON(arguments) == [summary |-> arguments]

(***************************************************************************)
(* State of the handlers.                                                  *)
(***************************************************************************)
Reqs == DOMAIN req

\* Variant of RefreshFlag that honours the query flag of any caller.
RefreshFlagAnyCaller(query, roles) == query

\* req.query.refresh === 'true' && req.session.roles.includes('SUPERADMIN')
RefreshFlag(query, roles) == query /\ "SUPERADMIN" \in roles

IdleReq ==
  [pc |-> "idle", url |-> "", query |-> FALSE, caller |-> "",
   found |-> Null, chunk |-> <<>>, result |-> Null, data |-> Null,
   calls |-> {}, ret |-> Null, err |-> "", after |-> {}, at |-> 0]

\* The locals videoId and refresh of a request.
VideoIdOf(q) == extractVideoId(q.url)
RefreshOf(q) == RefreshFlag(q.query, Roles(q.caller))

Finished(r) == req[r].pc \in {"done", "failed"}

\* A request that ended: its locals are gone, its outcome and its trace stay.
Ended(q, pc, ret, err) ==
  [q EXCEPT !.pc = pc, !.ret = ret, !.err = err,
            !.chunk = <<>>, !.result = Null, !.data = Null]

\* The table as the handlers find it at time 0: a row of another task type for
\* v2 and the summaries of v0, v9 and v1, written earlier.
StoredRows ==
  { Row(1, "v2", OtherTask, [text |-> "page"], 1, 0 - 30),
    Row(2, "v0", YoutubeSummary,
        [metadata |-> SnippetOf("v0"), en |-> zodParseJSON("summary A")], 10, 0 - 60),
    Row(3, "v9", YoutubeSummary,
        [metadata |-> SnippetOf("v9"), en |-> zodParseJSON("summary B")], 20, 0 - 60),
    Row(4, "v1", YoutubeSummary,
        [metadata |-> SnippetOf("v1"), en |-> zodParseJSON("summary A")], 10, 0 - 30) }

HandlerInit(n) ==
  /\ store = StoredRows
  /\ nextId = 5
  /\ clock = 0
  /\ hits = [c \in Callers |-> <<>>]
  /\ req = [r \in 1..n |-> IdleReq]
  /\ latest = <<>>

Init == HandlerInit(MaxReqs) /\ TextIdle

(***************************************************************************)
(* getLatestVideos.                                                        *)
(***************************************************************************)
\* orderBy createdAt desc: every order the store may give rows of equal createdAt.
RECURSIVE OrderByCreatedAtDesc(_)
OrderByCreatedAtDesc(rows) ==
  IF rows = {} THEN {<<>>}
  ELSE UNION { {<<first>> \o rest : rest \in OrderByCreatedAtDesc(rows \ {first})} :
               first \in {x \in rows : \A y \in rows : x.createdAt >= y.createdAt} }

Take(s, n) == SubSeq(s, 1, IF Len(s) < n THEN Len(s) ELSE n)

TakeLatest == 3

\* Variant of findManyLatest that takes before it orders.
findManyTakeFirst(rows) ==
  UNION { OrderByCreatedAtDesc(some) :
            some \in { part \in SUBSET {row \in rows : row.type = YoutubeSummary} :
                         \/ Cardinality(part) = TakeLatest
                         \/ part = {row \in rows : row.type = YoutubeSummary}
                            /\ Cardinality(part) < TakeLatest } }

\* findMany({where: {type}, take: 3, orderBy: {createdAt: 'desc'}})
findManyLatest(rows) ==
  { Take(s, TakeLatest) :
      s \in OrderByCreatedAtDesc({row \in rows : row.type = YoutubeSummary}) }

GetLatestVideos ==
  /\ \E outputs \in findManyLatest(store) : latest' = outputs
  /\ UNCHANGED <<store, nextId, clock, hits, req>>
  /\ UNCHANGED textVars

(***************************************************************************)
(* createYoutubeSummary, one action per awaited step.                      *)
(***************************************************************************)
\* if (found && !refresh) return found
CacheHit(found, refresh) == found # Null /\ ~refresh

\* Variant of UpsertId that always mints an id.
UpsertIdAlwaysFresh(found, fresh) == fresh

\* const id = found?.id || cuid()
UpsertId(found, fresh) == IF found # Null THEN found.id ELSE fresh

Payload(id, videoId, data, usage) ==
  [id |-> id, externalId |-> videoId, type |-> YoutubeSummary,
   output |-> [metadata |-> SnippetOf(videoId), en |-> data], usage |-> usage]

\* A POST arrives: the body is parsed, the identifier extracted and the video
\* snippet fetched; with no identifier the fetch may throw or answer nothing.
\* Requests are numbered in the order they arrive.
Receive(r, inputs) ==
  /\ req[r].pc = "idle"
  /\ \A o \in Reqs : o < r => req[o].pc # "idle"
  /\ \E in \in inputs, thrown \in BOOLEAN :
       LET url == in[1]
           query == in[2]
           caller == in[3]
           videoId == extractVideoId(url)
           q == [req[r] EXCEPT !.url = url, !.caller = caller, !.query = query,
                               !.calls = {"metadata"},
                               !.after = {o \in Reqs : Finished(o)}]
       IN /\ thrown => videoId = NoId
          /\ req' = [req EXCEPT ![r] =
                       IF thrown THEN Ended(q, "failed", Null, "metadata_error")
                       ELSE [q EXCEPT !.pc = "lookup"]]
  /\ UNCHANGED <<store, nextId, clock, hits, latest>>
  /\ UNCHANGED textVars

Begin(r) == Receive(r, Inputs)

\* The identifier check, then findUnique and the return of a cached record.
Lookup(r) ==
  /\ req[r].pc = "lookup"
  /\ LET q == req[r]
         videoId == VideoIdOf(q)
         found == findUnique(store, YoutubeSummary, videoId)
     IN req' = [req EXCEPT ![r] =
                  IF videoId = NoId THEN Ended(q, "failed", Null, "invalid_url")
                  ELSE IF CacheHit(found, RefreshOf(q))
                       THEN Ended([q EXCEPT !.found = found], "done", found, "")
                       ELSE [q EXCEPT !.found = found, !.pc = "transcribe"]]
  /\ UNCHANGED <<store, nextId, clock, hits, latest>>
  /\ UNCHANGED textVars

\* transcribeVideo, groupBySentences, the variable text and its first chunk.
Transcribe(r) ==
  /\ req[r].pc = "transcribe"
  /\ LET q == [req[r] EXCEPT !.calls = @ \cup {"transcript"}]
     IN \/ req' = [req EXCEPT ![r] = Ended(q, "failed", Null, "transcript_error")]
        \/ \E transcripts \in Transcripts :
             LET text == AssembleText(groupBySentences(transcripts))
                 chunkedText == splitTextByToken(text, ChunkSize)[1]
             IN req' = [req EXCEPT ![r] =
                          [q EXCEPT !.chunk = chunkedText, !.pc = "ratelimit"]]
  /\ UNCHANGED <<store, nextId, clock, hits, latest>>
  /\ UNCHANGED textVars

\* Variant of Throttle whose verdict is not looked at.
ThrottleIgnored(r) ==
  /\ req[r].pc = "ratelimit"
  /\ LET q == [req[r] EXCEPT !.calls = @ \cup {"ratelimit"}, !.at = clock]
     IN /\ hits' = [hits EXCEPT ![q.caller] = Append(Recent(hits[q.caller], clock), clock)]
        /\ req' = [req EXCEPT ![r] = [q EXCEPT !.pc = "call"]]
  /\ UNCHANGED <<store, nextId, clock, latest>>
  /\ UNCHANGED textVars

\* rateLimit({duration: 60, limit: 2})(req, res)
Throttle(r) ==
  /\ req[r].pc = "ratelimit"
  /\ LET q == [req[r] EXCEPT !.calls = @ \cup {"ratelimit"}, !.at = clock]
         recent == Recent(hits[q.caller], clock)
     IN IF Allowed(hits[q.caller], clock)
        THEN /\ hits' = [hits EXCEPT ![q.caller] = Append(recent, clock)]
             /\ req' = [req EXCEPT ![r] = [q EXCEPT !.pc = "call"]]
        ELSE /\ hits' = [hits EXCEPT ![q.caller] = recent]
             /\ req' = [req EXCEPT ![r] = Ended(q, "failed", Null, "rate_limit")]
  /\ UNCHANGED <<store, nextId, clock, latest>>
  /\ UNCHANGED textVars

\* Variant of CallModel that stores the raw completion before it parses it.
CallModelStoresFirst(r) ==
  /\ req[r].pc = "call"
  /\ LET q == [req[r] EXCEPT !.calls = @ \cup {"llm"}]
     IN \/ /\ req' = [req EXCEPT ![r] = Ended(q, "failed", Null, "llm_error")]
           /\ UNCHANGED <<store, nextId>>
        \/ \E result \in Completions :
             LET id == UpsertId(q.found, nextId)
                 raw == Payload(id, VideoIdOf(q), [raw |-> result.arguments], result.usage)
                 out == Upsert(store, id, raw, clock)
             IN /\ store' = out.rows
                /\ nextId' = nextId + 1
                /\ req' = [req EXCEPT ![r] =
                             IF Parses(result.arguments)
                             THEN [q EXCEPT !.result = result,
                                            !.data = zodParseJSON(result.arguments),
                                            !.chunk = <<>>, !.pc = "upsert"]
                             ELSE Ended(q, "failed", Null, "parse_error")]
  /\ UNCHANGED <<clock, hits, latest>>
  /\ UNCHANGED textVars

\* model.call and zodParseJSON(Schema) of the tool-call arguments.
CallModel(r) ==
  /\ req[r].pc = "call"
  /\ LET q == [req[r] EXCEPT !.calls = @ \cup {"llm"}]
     IN \/ req' = [req EXCEPT ![r] = Ended(q, "failed", Null, "llm_error")]
        \/ \E result \in Completions :
             req' = [req EXCEPT ![r] =
                       IF Parses(result.arguments)
                       THEN [q EXCEPT !.result = result,
                                      !.data = zodParseJSON(result.arguments),
                                      !.chunk = <<>>, !.pc = "upsert"]
                       ELSE Ended(q, "failed", Null, "parse_error")]
  /\ UNCHANGED <<store, nextId, clock, hits, latest>>
  /\ UNCHANGED textVars

\* The id, the payload and prisma.lLMTaskOutput.upsert.
UpsertStep(r) ==
  /\ req[r].pc = "upsert"
  /\ LET q == req[r]
         id == UpsertId(q.found, nextId)
         payload == Payload(id, VideoIdOf(q), q.data, q.result.usage)
         out == Upsert(store, id, payload, clock)
     IN /\ store' = out.rows
        /\ nextId' = IF q.found # Null THEN nextId ELSE nextId + 1
        /\ req' = [req EXCEPT ![r] =
                     IF out.ok
                     THEN Ended([q EXCEPT !.calls = @ \cup {"write"}],
                                "done", out.row, "")
                     ELSE Ended(q, "failed", Null, "unique_violation")]
  /\ UNCHANGED <<clock, hits, latest>>
  /\ UNCHANGED textVars

\* Time passes. Only Throttle and UpsertStep look at the clock, so time is let
\* pass only while a request waits at one of them.
Tick ==
  /\ clock + TickStep <= MaxClock
  /\ \E r \in Reqs : req[r].pc \in {"ratelimit", "upsert"}
  /\ clock' = clock + TickStep
  /\ UNCHANGED <<store, nextId, hits, req, latest>>
  /\ UNCHANGED textVars

Next ==
  \/ \E r \in Reqs : Begin(r)
  \/ \E r \in Reqs : Lookup(r)
  \/ \E r \in Reqs : Transcribe(r)
  \/ \E r \in Reqs : Throttle(r)
  \/ \E r \in Reqs : CallModel(r)
  \/ \E r \in Reqs : UpsertStep(r)
  \/ Tick

Spec == Init /\ [][Next]_vars

(***************************************************************************)
(* MaxSeqReqs requests sent one after the other.                           *)
(***************************************************************************)
SeqInit == HandlerInit(MaxSeqReqs) /\ TextIdle

NoneInFlight == \A o \in Reqs : req[o].pc = "idle" \/ Finished(o)

SeqBegin(r) == Receive(r, SeqInputs) /\ NoneInFlight

SeqNext ==
  \/ \E r \in Reqs : SeqBegin(r)
  \/ \E r \in Reqs : Lookup(r)
  \/ \E r \in Reqs : Transcribe(r)
  \/ \E r \in Reqs : Throttle(r)
  \/ \E r \in Reqs : CallModel(r)
  \/ \E r \in Reqs : UpsertStep(r)
  \/ Tick

SeqSpec == SeqInit /\ [][SeqNext]_vars

(***************************************************************************)
(* GET requests between POST requests sent one after the other.            *)
(***************************************************************************)
GetNext ==
  \/ SeqNext
  \/ GetLatestVideos /\ NoneInFlight

GetSpec == Init /\ [][GetNext]_vars

(***************************************************************************)
(* The transform pipeline as a specification of its own.                   *)
(***************************************************************************)
TextInit ==
  /\ lines \in SeqsUpTo(Lines, MaxLines)
  /\ tpc = "input"
  /\ groupedTranscripts = <<>>
  /\ segments = <<>>
  /\ formatted = <<>>
  /\ assembled = <<>>
  /\ HandlerInit(MaxReqs)

TextNext == GroupStep \/ MergeStep \/ AssembleStep

TextSpec == TextInit /\ [][TextNext]_vars

(***************************************************************************)
(* Properties.                                                             *)
(***************************************************************************)
Started(r) == req[r].pc # "idle"
Called(r, what) == what \in req[r].calls
SameVideo(a, b) == VideoIdOf(req[a]) # NoId /\ VideoIdOf(req[a]) = VideoIdOf(req[b])

\* The request is not a privileged refresh.
Unprivileged(q) == ~q.query \/ "SUPERADMIN" \notin Roles(q.caller)

\* The upsert of the request has been issued and has come back.
UpsertReturned(r) == Called(r, "write") \/ req[r].err = "unique_violation"

SummaryRows(rows) == {row \in rows : row.type = YoutubeSummary}

InvalidUrlFailsUntouched ==
  \A r \in Reqs :
    (Started(r) /\ VideoIdOf(req[r]) = NoId) =>
       /\ req[r].calls = {}
       /\ Finished(r) => req[r].err = "invalid_url"

\* A summary row with all its parts: the snippet of its video, a parsed
\* summary and the usage of the completion it came from.
CompleteRow(row) ==
  /\ row.output.metadata = SnippetOf(row.externalId)
  /\ \E c \in Completions :
       /\ Parses(c.arguments)
       /\ row.output.en = zodParseJSON(c.arguments)
       /\ row.usage = c.usage

LetThroughBefore(r) ==
  {o \in Reqs : /\ o < r
                /\ req[o].caller = req[r].caller
                /\ Called(o, "llm")
                /\ req[o].at > req[r].at - RateDuration}

\* C4: the throttle is asked before the model is called, and a request that
\* reaches it when its caller already has RateLimit calls let through within
\* the last RateDuration seconds is rejected, with no call and no write.
ThrottleBeforeCall ==
  \A r \in Reqs :
    /\ Called(r, "llm") => Called(r, "ratelimit") /\ req[r].err # "rate_limit"
    /\ (Called(r, "ratelimit") /\ req[r].pc # "ratelimit"
          /\ Cardinality(LetThroughBefore(r)) >= RateLimit) =>
         /\ req[r].pc = "failed" /\ req[r].err = "rate_limit"
         /\ ~Called(r, "llm") /\ ~Called(r, "write")

ThrottleBeforeCallWitness ==
  \E r \in Reqs :
    /\ req[r].err = "rate_limit"
    /\ req[r].at > 0
    /\ Cardinality(LetThroughBefore(r)) = RateLimit
    /\ \A a, b \in LetThroughBefore(r) \cup {r} : a # b => ~SameVideo(a, b)
    /\ store = StoredRows \cup {req[o].ret : o \in LetThroughBefore(r)}

\* The three outcomes of the upsert of request r, from rows to rowsAfter.
Replaced(r, rows, rowsAfter, after) ==
  LET before == req[r]
      old == {row \in rows : row.id = before.found.id}
      new == after.ret
  IN /\ after.pc = "done"
     /\ Cardinality(rowsAfter) = Cardinality(rows)
     /\ rowsAfter = (rows \ old) \cup {new}
     /\ new.id = before.found.id
     /\ new.externalId = before.found.externalId
     /\ new.type = before.found.type
     /\ new.output = [metadata |-> SnippetOf(new.externalId), en |-> before.data]
     /\ new.usage = before.result.usage

Created(r, rows, rowsAfter, after) ==
  LET new == after.ret
  IN /\ after.pc = "done"
     /\ new.id \notin {row.id : row \in rows}
     /\ new.externalId = VideoIdOf(req[r])
     /\ new.type = YoutubeSummary
     /\ new \notin rows
     /\ rowsAfter = rows \cup {new}
     /\ Cardinality(rowsAfter) = Cardinality(rows) + 1

Rejected(r, rows, rowsAfter, after) ==
  /\ after.pc = "failed" /\ after.err = "unique_violation"
  /\ rowsAfter = rows
  /\ findUnique(rows, YoutubeSummary, VideoIdOf(req[r])) # Null

\* C5 as stated: the upsert of a refresh replaces the found row under its id,
\* keeping the number of rows, the id, externalId and type, with output and
\* usage those of the new summary; the upsert of a request that found nothing
\* adds exactly one row under a fresh id.
UpsertReplacesOrCreates ==
  [][\A r \in Reqs :
       (req[r].pc = "upsert" /\ req'[r].pc # "upsert") =>
          IF req[r].found # Null
          THEN Replaced(r, store, store', req'[r])
          ELSE Created(r, store, store', req'[r])]_vars

\* C5 as amended: the same, but the upsert of a request that found nothing is
\* rejected, and adds no row, when a row for its video has been created since
\* its lookup.
UpsertReplacesCreatesOrRejects ==
  [][\A r \in Reqs :
       (req[r].pc = "upsert" /\ req'[r].pc # "upsert") =>
          IF req[r].found # Null
          THEN Replaced(r, store, store', req'[r])
          ELSE \/ Created(r, store, store', req'[r])
               \/ Rejected(r, store, store', req'[r])]_vars

UpsertReplacesWitness ==
  \E a, b \in Reqs :
    /\ req[a].found = Null /\ Called(a, "write")
    /\ req[b].found # Null /\ Called(b, "write")
    /\ req[b].ret.id = req[b].found.id
    /\ req[b].ret.output # req[b].found.output
    /\ req[b].ret \in store
    /\ Cardinality(store) = Cardinality(StoredRows) + 1

RECURSIVE Flatten(_)
Flatten(groups) ==
  IF groups = <<>> THEN <<>> ELSE Head(groups) \o Flatten(Tail(groups))

\* The position in the transcript of the first line of group k.
RECURSIVE FirstLine(_, _)
FirstLine(groups, k) ==
  IF k = 1 THEN 1 ELSE FirstLine(groups, k - 1) + Len(groups[k - 1])

BeginsWithDash(text) ==
  \E k \in 1..Len(text) : text[k] = "-" /\ \A j \in 1..(k - 1) : text[j] = " "

RECURSIVE SpaceJoined(_)
SpaceJoined(group) ==
  IF Len(group) = 1 THEN group[1].text
  ELSE group[1].text \o <<" ">> \o SpaceJoined(Tail(group))

\* C6: the groups are the transcript cut, in order and without loss, before
\* every line but the first whose trimmed text begins with '-', and nowhere
\* else; a segment has the offset of its first line and the texts of its lines
\* joined by spaces; no lines give no segments.
GroupingIsPartition ==
  /\ tpc \in {"grouped", "merged", "assembled"} =>
       /\ Flatten(groupedTranscripts) = lines
       /\ \A k \in 1..Len(groupedTranscripts) : Len(groupedTranscripts[k]) >= 1
       /\ \A i \in 1..Len(lines) :
            (\E k \in 1..Len(groupedTranscripts) : FirstLine(groupedTranscripts, k) = i)
              <=> (i = 1 \/ BeginsWithDash(lines[i].text))
  /\ tpc \in {"merged", "assembled"} =>
       /\ Len(segments) = Len(groupedTranscripts)
       /\ \A k \in 1..Len(segments) :
            /\ segments[k].offset = groupedTranscripts[k][1].offset
            /\ segments[k].text = SpaceJoined(groupedTranscripts[k])
       /\ lines = <<>> => segments = <<>>

GroupingIsPartitionWitness ==
  /\ tpc = "merged"
  /\ Len(lines) = 3
  /\ BeginsWithDash(lines[1].text)
  /\ ~BeginsWithDash(lines[2].text)
  /\ lines[3].text = <<" ", "-", " ", "a">>
  /\ lines[3].offset # lines[1].offset
  /\ Len(segments) = 2
  /\ segments[2].offset = lines[3].offset

\* '[<ceil(offset/1000)>s] '
StampOf(segment) ==
  <<"[">> \o NumToStr((segment.offset + 999) \div 1000) \o <<"s", "]", " ">>

\* C7: each segment is rendered '[<ceil(offset/1000)>s] <text>', and the text
\* rendered for a segment whose first line begins with the dash marker no
\* longer begins with that marker.
MarkerRemoved ==
  tpc = "assembled" =>
    /\ Len(formatted) = Len(segments)
    /\ \A k \in 1..Len(formatted) :
         LET stamp == StampOf(segments[k])
             text == SubSeq(formatted[k], Len(stamp) + 1, Len(formatted[k]))
         IN /\ SubSeq(formatted[k], 1, Len(stamp)) = stamp
            /\ BeginsWithDash(groupedTranscripts[k][1].text) => ~BeginsWithDash(text)

\* outputs are the newest summary rows of rows, at most three, newest first.
Newest(outputs, rows) ==
  LET given == {outputs[i] : i \in 1..Len(outputs)}
      n == Cardinality(SummaryRows(rows))
  IN /\ Len(outputs) = IF n < 3 THEN n ELSE 3
     /\ Cardinality(given) = Len(outputs)
     /\ given \subseteq SummaryRows(rows)
     /\ \A i, j \in 1..Len(outputs) :
          i < j => outputs[i].createdAt >= outputs[j].createdAt
     /\ \A x \in given, y \in SummaryRows(rows) \ given : x.createdAt >= y.createdAt

\* C8: getLatestVideos answers with the summary rows of the store, at most
\* three and all of them if there are fewer, newest first, none older than a
\* summary row left out, and it leaves the store as it is.
LatestAreNewest ==
  [][latest' # latest => Newest(latest', store) /\ store' = store]_vars

LatestAreNewestWitness ==
  /\ Len(latest) = 3
  /\ Cardinality(SummaryRows(store)) >= 5
  /\ latest[1].createdAt > latest[2].createdAt
  /\ latest[2].createdAt > latest[3].createdAt
  /\ latest[1] \in store
  /\ \E x, y \in SummaryRows(store) : x # y /\ x.createdAt = y.createdAt

\* Two requests for one video that both found no record and both had the
\* model's answer parsed and their upsert returned.
Raced(a, b) ==
  /\ a # b
  /\ SameVideo(a, b)
  /\ req[a].found = Null /\ req[b].found = Null
  /\ req[a].pc # "lookup" /\ req[b].pc # "lookup"
  /\ Called(a, "llm") /\ Called(b, "llm")
  /\ UpsertReturned(a) /\ UpsertReturned(b)

\* C9 as stated: both upserts of two such requests succeed.
BothRacersWrite ==
  \A a, b \in Reqs : Raced(a, b) => req[a].pc = "done" /\ req[b].pc = "done"

\* C9 as amended: two requests can both pass the lookup before either writes
\* and both call the model, but then at most one of their upserts succeeds;
\* the other is rejected and has written nothing.
OneRacerWrites ==
  \A a, b \in Reqs :
    Raced(a, b) =>
      /\ ~(req[a].pc = "done" /\ req[b].pc = "done")
      /\ \A r \in {a, b} :
           \/ req[r].pc = "done" /\ Called(r, "write")
           \/ req[r].pc = "failed" /\ req[r].err = "unique_violation"
                /\ ~Called(r, "write")

OneRacerWritesWitness ==
  \E a, b \in Reqs :
    /\ Raced(a, b)
    /\ req[a].pc = "done" /\ req[a].ret \in store
    /\ req[b].err = "unique_violation"

\* C10: the store never holds two rows for one (type, externalId); a request
\* rejected for the key had found nothing, had called the model, and leaves
\* the row of the key as another request wrote it; and no two requests that
\* found nothing wrote under one id or for one video.
OneRowPerKey ==
  /\ \A x, y \in store :
       (x.type = y.type /\ x.externalId = y.externalId) => x = y
  /\ \A r \in Reqs :
       req[r].err = "unique_violation" =>
         /\ req[r].found = Null
         /\ Called(r, "llm") /\ ~Called(r, "write")
         /\ \E o \in Reqs \ {r} :
              /\ Called(o, "write")
              /\ req[o].ret = findUnique(store, YoutubeSummary, VideoIdOf(req[r]))
  /\ \A a, b \in Reqs :
       (a # b /\ req[a].found = Null /\ req[b].found = Null
          /\ Called(a, "write") /\ Called(b, "write")) =>
         /\ req[a].ret.id # req[b].ret.id
         /\ ~SameVideo(a, b)

OneRowPerKeyWitness ==
  \E a, b \in Reqs :
    /\ SameVideo(a, b)
    /\ req[a].found = Null /\ Called(a, "write")
    /\ req[b].err = "unique_violation"
    /\ findUnique(store, YoutubeSummary, VideoIdOf(req[b])) = req[a].ret
    /\ Cardinality(SummaryRows(store)) = Cardinality(SummaryRows(StoredRows)) + 1

====
